---- MODULE Spec2Model ----
(***************************************************************************)
(* Model of dps_jupyter_server_extension/handlers.py: the host-to-         *)
(* environment resolver get_maap_config (memoized by functools.lru_cache), *)
(* parse_params, the seven route handlers and setup_handlers.              *)
(*                                                                         *)
(* Text values are sequences of text fragments: a host "dit" is            *)
(* <<"d","i","t">>, string concatenation is \o, Python's `s in t` on       *)
(* strings is In(s, t).  Byte strings are sequences of numbers 0..255 and  *)
(* decoded parameter values are sequences of Unicode code points.          *)
(***************************************************************************)
EXTENDS Integers, Sequences, FiniteSets, TLC

VARIABLES
    config_file,   \* content of maap_environments.json: Missing, Malformed or a list of entries
    cache,         \* the lru_cache of get_maap_config, least recently used entry first
    scanned,       \* whether the latest call of get_maap_config opened and scanned the file
    resolved,      \* hosts for which get_maap_config has returned so far (history)
    handlers,      \* the (url pattern, handler) pairs added to web_app
    request,       \* the latest request handled: route, host, uri, arguments, upstream outcome
    remote,        \* the remote-API call made for the latest request, or NoCall
    response,      \* how the latest request ended: a finished envelope or an escaped exception
    log,           \* messages written to the log
    host_in,       \* argument of a direct call of get_maap_config
    args_in,       \* argument of a direct call of parse_params
    ret            \* what the latest direct call returned or raised

vars == <<config_file, cache, scanned, resolved, handlers, request, remote,
          response, log, host_in, args_in, ret>>

----------------------------------------------------------------------------
(* Bounds of the model                                                     *)

MaxHostLen == 3      \* longest host string drawn for a direct resolver call
MaxEnvs == 2         \* longest configuration list drawn for a direct resolver call
MaxValues == 2       \* longest value list of a raw argument
MaxFill == 129       \* distinct one-off hosts that can be resolved besides the fixed ones

----------------------------------------------------------------------------
(* Text helpers                                                            *)

\* Python's `s in t` for two strings: s occurs in t as a contiguous substring.
In(s, t) ==
    \E i \in 0..(Len(t) - Len(s)) : SubSeq(t, i + 1, i + Len(s)) = s

\* All sequences over S of length at most n.
SeqUpTo(S, n) == UNION {[1..k -> S] : k \in 0..n}

\* Optional values: None is the empty sequence, a present value x is <<x>>.
None == <<>>
Some(x) == <<x>>

\* The outcome of a call that may raise.
Return(v) == [raised |-> FALSE, exc |-> "", value |-> v]
Raise(e) == [raised |-> TRUE, exc |-> e, value |-> None]

----------------------------------------------------------------------------
(* The configuration source, maap_environments.json                        *)

\* The file is absent, holds something that is not the expected JSON, or
\* holds a list of environment entries.
Missing == [exists |-> FALSE, valid |-> FALSE, data |-> <<>>]
Malformed == [exists |-> TRUE, valid |-> FALSE, data |-> <<>>]
File(data) == [exists |-> TRUE, valid |-> TRUE, data |-> data]

\* One entry of the list: {default_host: bool, ade_server: string,
\* api_server: string}.
Entry(default_host, ade_server, api_server) ==
    [default_host |-> default_host, ade_server |-> ade_server,
     api_server |-> api_server]

\* A faulty variant of the load below: it answers an absent or unreadable
\* file with an empty list.
json_load_lenient(file) ==
    IF file.exists /\ file.valid THEN Return(file.data) ELSE Return(<<>>)

\* with open(path_to_json) as f: data = json.load(f)
json_load(file) ==
    IF ~file.exists THEN Raise("FileNotFoundError")
    ELSE IF ~file.valid THEN Raise("JSONDecodeError")
    ELSE Return(file.data)

ConfigLoadErrors == {"FileNotFoundError", "JSONDecodeError"}

\* A faulty variant of the match below: it looks for the entry's identifier
\* inside the host.
first_match_reversed(data, host) ==
    LET hits == {i \in DOMAIN data : In(data[i].ade_server, host)}
    IN  IF hits = {} THEN None
        ELSE Some(data[CHOOSE i \in hits : \A j \in hits : i <= j])

\* match = next((x for x in data if host in x['ade_server']), None)
first_match(data, host) ==
    LET hits == {i \in DOMAIN data : In(host, data[i].ade_server)}
    IN  IF hits = {} THEN None
        ELSE Some(data[CHOOSE i \in hits : \A j \in hits : i <= j])

\* next((x for x in data if x['default_host'] == True), None)
first_default(data) ==
    LET hits == {i \in DOMAIN data : data[i].default_host = TRUE}
    IN  IF hits = {} THEN None
        ELSE Some(data[CHOOSE i \in hits : \A j \in hits : i <= j])

\* The body of get_maap_config, without the cache (get_maap_config.__wrapped__).
scan_config(file, host) ==
    LET loaded == json_load(file)
    IN  IF loaded.raised THEN loaded
        ELSE LET match == first_match(loaded.value, host)
             IN  Return(IF match = None THEN first_default(loaded.value) ELSE match)

----------------------------------------------------------------------------
(* functools.lru_cache(maxsize=128) around get_maap_config                 *)

maxsize == 128

CacheKeys(c) == {c[i].key : i \in DOMAIN c}
CacheIndex(c, host) == CHOOSE i \in DOMAIN c : c[i].key = host
Without(c, i) == SubSeq(c, 1, i - 1) \o SubSeq(c, i + 1, Len(c))

\* A hit moves the entry to the most recently used end.
cache_hit(c, host) ==
    LET i == CacheIndex(c, host) IN Without(c, i) \o <<c[i]>>

\* A faulty variant of the insertion below: it evicts the most recently
\* used entry when full.
cache_insert_evict_newest(c, host, result) ==
    (IF Len(c) >= maxsize THEN SubSeq(c, 1, Len(c) - 1) ELSE c)
        \o <<[key |-> host, result |-> result]>>

\* A miss stores the result; when the cache is full the least recently used
\* entry is dropped first.
cache_insert(c, host, result) ==
    (IF Len(c) >= maxsize THEN Tail(c) ELSE c) \o <<[key |-> host, result |-> result]>>

\* A faulty variant of the lookup below: it answers a hit with the most
\* recently stored result.
cache_lookup_latest(c, host) == c[Len(c)].result

cache_lookup(c, host) == c[CacheIndex(c, host)].result

\* get_maap_config(host): outcome of the call, the cache after it, and
\* whether the file was opened.  A raising call stores nothing.
get_maap_config(file, c, host) ==
    IF host \in CacheKeys(c)
    THEN [out |-> Return(cache_lookup(c, host)), cache |-> cache_hit(c, host),
          scanned |-> FALSE]
    ELSE LET out == scan_config(file, host)
         IN  [out |-> out,
              cache |-> IF out.raised THEN c ELSE cache_insert(c, host, out.value),
              scanned |-> TRUE]

\* maap_api(host): get_maap_config(host)['api_server']; subscripting None raises.
maap_api(file, c, host) ==
    LET r == get_maap_config(file, c, host)
    IN  [r EXCEPT !.out =
            IF r.out.raised THEN r.out
            ELSE IF r.out.value = None THEN Raise("TypeError")
            ELSE Return(r.out.value[1].api_server)]

----------------------------------------------------------------------------
(* parse_params                                                            *)

Continuation(b) == b >= 128 /\ b <= 191

\* bytes.decode("utf-8") in strict mode: the code points of b, or
\* UnicodeDecodeError for a stray or missing continuation byte, an overlong
\* form, a surrogate or a value above U+10FFFF.
RECURSIVE utf8_decode(_)
utf8_decode(b) ==
    IF b = <<>> THEN Return(<<>>)
    ELSE LET n == IF b[1] < 128 THEN 1
                  ELSE IF b[1] >= 194 /\ b[1] <= 223 THEN 2
                  ELSE IF b[1] >= 224 /\ b[1] <= 239 THEN 3
                  ELSE IF b[1] >= 240 /\ b[1] <= 244 THEN 4
                  ELSE 0
         IN  IF n = 0 \/ Len(b) < n \/ \E i \in 2..n : ~Continuation(b[i])
             THEN Raise("UnicodeDecodeError")
             ELSE LET cp == CASE n = 1 -> b[1]
                              [] n = 2 -> (b[1] - 192) * 64 + (b[2] - 128)
                              [] n = 3 -> (b[1] - 224) * 4096 + (b[2] - 128) * 64
                                          + (b[3] - 128)
                              [] n = 4 -> (b[1] - 240) * 262144 + (b[2] - 128) * 4096
                                          + (b[3] - 128) * 64 + (b[4] - 128)
                      bad == \/ n = 3 /\ (cp < 2048 \/ (cp >= 55296 /\ cp <= 57343))
                             \/ n = 4 /\ (cp < 65536 \/ cp > 1114111)
                      rest == utf8_decode(SubSeq(b, n + 1, Len(b)))
                 IN  IF bad THEN Raise("UnicodeDecodeError")
                     ELSE IF rest.raised THEN rest
                     ELSE Return(<<cp>> \o rest.value)

\* A faulty variant of the conversion below: it takes the last value.
decode_last(value) ==
    IF value = <<>> THEN Raise("IndexError") ELSE utf8_decode(value[Len(value)])

\* value[0].decode("utf-8"): indexing an empty list raises IndexError.
decode_first(value) ==
    IF value = <<>> THEN Raise("IndexError") ELSE utf8_decode(value[1])

\* A dict is the sequence of its items, [key, value], in insertion order.
Keys(items) == {items[i].key : i \in DOMAIN items}
Lookup(items, key) == items[CHOOSE i \in DOMAIN items : items[i].key = key].value

\* parse_params(args): the loop raises at the first item it cannot convert.
parse_params(args) ==
    LET bad == {i \in DOMAIN args : decode_first(args[i].value).raised}
    IN  IF bad # {}
        THEN Raise(decode_first(args[CHOOSE i \in bad : \A j \in bad : i <= j].value).exc)
        ELSE Return([k \in Keys(args) |-> decode_first(Lookup(args, k)).value])

----------------------------------------------------------------------------
(* The remote API client (maap-py) and its responses                       *)

\* What the upstream does when called: it raises, or returns a response.
ConnectionRefused == [raises |-> TRUE, status_code |-> 0, text |-> <<>>]
Response(status, text) == [raises |-> FALSE, status_code |-> status, text |-> text]

JobBody == <<"{\"id\": \"j-1\"}">>
HtmlBody == <<"<html>Bad Gateway</html>">>
ErrorBody == <<"<Error>bad id</Error>">>

Upstreams ==
    {ConnectionRefused, Response(200, JobBody), Response(200, HtmlBody),
     Response(400, ErrorBody), Response(500, ErrorBody)}

\* requests.Response.ok: no 4xx or 5xx status.
ok(resp) == resp.status_code < 400

\* requests.Response.json(), tabulated on the bodies above: the parsed
\* value of a JSON text, an error for any other text.
json(resp) ==
    IF resp.text = JobBody THEN Return(<<"dict", "id", "j-1">>)
    ELSE Raise("JSONDecodeError")

NoCall == [called |-> FALSE, api |-> <<>>, op |-> "", args |-> <<>>]
Call(api, op, args) == [called |-> TRUE, api |-> api, op |-> op, args |-> args]

----------------------------------------------------------------------------
(* The route handlers                                                      *)

Finish(status, body) ==
    [kind |-> "finish", status_code |-> status, response |-> body, exc |-> ""]
Escaped(e) == [kind |-> "raise", status_code |-> 0, response |-> <<>>, exc |-> e]
NoResponse == [kind |-> "none", status_code |-> 0, response |-> <<>>, exc |-> ""]

\* msg = "Failed to query endpoint: " + self.request.host + self.request.uri
failure_msg(req) == <<"Failed to query endpoint: ">> \o req.host \o req.uri

\* logging.ERROR(msg): logging.ERROR is the integer level 40, not a
\* function, so the call raises TypeError and writes nothing.
logging_ERROR(msg) == [raised |-> TRUE, exc |-> "TypeError", written |-> {}]

\* The except: block shared by the handlers.
except_block(req) ==
    LET msg == failure_msg(req)
        logged == logging_ERROR(msg)
    IN  IF logged.raised
        THEN [response |-> Escaped(logged.exc), written |-> logged.written]
        ELSE [response |-> Finish(500, msg), written |-> logged.written]

\* A faulty variant of the relay below: it reports every upstream failure
\* with status 500.
relay_as_500(resp) ==
    IF ok(resp)
    THEN LET body == json(resp)
         IN  IF body.raised THEN body ELSE Return(Finish(resp.status_code, body.value))
    ELSE Return(Finish(500, resp.text))

\* if resp.ok: finish(status_code, resp.json()) else: finish(status_code, resp.text)
relay(resp) ==
    IF ok(resp)
    THEN LET body == json(resp)
         IN  IF body.raised THEN body ELSE Return(Finish(resp.status_code, body.value))
    ELSE Return(Finish(resp.status_code, resp.text))

\* DescribeCapabilitiesHandler: finish(status_code, resp.text) whatever resp.ok.
relay_text(resp) == Return(Finish(resp.status_code, resp.text))

\* The try: block.  key is the required parameter ("" for none); the remote
\* call is made only once params[key] has been read.
try_block(req, api, params, key, op, branches) ==
    IF key # "" /\ key \notin DOMAIN params
    THEN [out |-> Raise("KeyError"), remote |-> NoCall]
    ELSE LET call == Call(api, op, IF key = "" THEN <<>> ELSE <<params[key]>>)
         IN  IF req.upstream.raises
             THEN [out |-> Raise("ConnectionError"), remote |-> call]
             ELSE [out |-> IF branches THEN relay(req.upstream)
                           ELSE relay_text(req.upstream),
                   remote |-> call]

\* A handler's get(): resolve the API host, parse the arguments when the
\* handler does (parses), run the try block, and the except block when it
\* raised.  maap_api and parse_params are called outside the try.
get(file, c, req, parses, key, op, branches) ==
    LET api == maap_api(file, c, req.host)
        params == IF parses THEN parse_params(req.arguments) ELSE Return(<<>>)
        base == [cache |-> api.cache, scanned |-> api.scanned, remote |-> NoCall,
                 response |-> NoResponse, written |-> {}]
    IN  IF api.out.raised THEN [base EXCEPT !.response = Escaped(api.out.exc)]
        ELSE IF params.raised THEN [base EXCEPT !.response = Escaped(params.exc)]
        ELSE LET t == try_block(req, api.out.value, params.value, key, op, branches)
                 e == except_block(req)
             IN  IF t.out.raised
                 THEN [base EXCEPT !.remote = t.remote, !.response = e.response,
                                   !.written = e.written]
                 ELSE [base EXCEPT !.remote = t.remote, !.response = t.out.value]

----------------------------------------------------------------------------
(* Inputs                                                                  *)

\* A configuration list of two environments; the first one is the default.
Environments ==
    <<Entry(TRUE, <<"o", "p", "s">>, <<"api.ops">>),
      Entry(FALSE, <<"d", "i", "t">>, <<"api.dit">>)>>

\* Request hosts: the second environment's server, and one no entry contains.
Hosts == {<<"d", "i", "t">>, <<"l", "a", "b">>}

BaseUrls == {<<"/">>, <<"/", "user", "/">>}

JobId == <<106>>
Item(k, v) == [key |-> k, value |-> v]

\* Query strings with the arguments the server parses from them.
Queries ==
    {[qs |-> <<>>, arguments |-> <<>>],
     [qs |-> <<"?job_id=j">>, arguments |-> <<Item("job_id", <<JobId>>)>>],
     [qs |-> <<"?job_id=j&job_id=k">>,
      arguments |-> <<Item("job_id", <<JobId, <<107>>>>)>>],
     [qs |-> <<"?job_id=%FF">>, arguments |-> <<Item("job_id", <<<<255>>>>)>>],
     [qs |-> <<"?username=u">>, arguments |-> <<Item("username", <<<<117>>>>)>>]}

JobQuery == [qs |-> <<"?job_id=j">>, arguments |-> <<Item("job_id", <<JobId>>)>>]

NoRequest ==
    [route |-> "", host |-> <<>>, uri |-> <<>>, arguments |-> <<>>,
     upstream |-> ConnectionRefused]

NotCalled == [raised |-> FALSE, exc |-> "not called", value |-> None]

\* Host strings and configuration lists for direct calls of get_maap_config.
HostChars == {"a", "b", "A"}
HostStrings == SeqUpTo(HostChars, MaxHostLen)
AdeServers == {<<"a">>, <<"b">>, <<"a", "b">>, <<"b", "a">>, <<"b", "b">>}
ApiServer(i) == <<"api", ToString(i)>>
Configs ==
    UNION {{[i \in 1..n |-> Entry(i = d, ade[i], ApiServer(i))] :
                ade \in [1..n -> AdeServers], d \in 1..n} : n \in 1..MaxEnvs}

\* Raw argument mappings for direct calls of parse_params.
ByteStrings ==
    {<<>>, <<106>>, <<195, 169>>, <<226, 130, 172>>, <<255>>, <<237, 160, 128>>}
ValueLists == SeqUpTo(ByteStrings, MaxValues)
RawArgs ==
    {<<>>}
    \cup {<<Item(k, v)>> : k \in {"job_id", "username"}, v \in ValueLists}
    \cup {<<Item("job_id", v), Item("username", w)>> : v \in ValueLists, w \in ValueLists}

\* One-off hosts f1, f2, ... that no environment's server contains.
Digits == <<"0", "1", "2", "3", "4", "5", "6", "7", "8", "9">>
RECURSIVE Decimal(_)
Decimal(k) ==
    IF k < 10 THEN <<Digits[k + 1]>> ELSE Decimal(k \div 10) \o <<Digits[(k % 10) + 1]>>
FillHost(k) == <<"f">> \o Decimal(k)
Probe == <<"d", "i", "t">>
Filled == Cardinality(resolved \ {Probe})

----------------------------------------------------------------------------
(* Actions                                                                 *)

\* url_path_join(base_url, "dps-jupyter-server-extension", name)
url_path_join(base_url, name) == base_url \o <<"dps-jupyter-server-extension", "/", name>>

Routes ==
    {[name |-> "describeCapabilities", handler |-> "DescribeCapabilitiesHandler"],
     [name |-> "submitJob", handler |-> "SubmitJobHandler"],
     [name |-> "revokeJob", handler |-> "RevokeJobHandler"],
     [name |-> "jobResult", handler |-> "JobResultHandler"],
     [name |-> "jobMetrics", handler |-> "JobMetricsHandler"],
     [name |-> "jobStatus", handler |-> "JobStatusHandler"],
     [name |-> "listJobs", handler |-> "ListJobsHandler"]}

\* setup_handlers(web_app): adds the seven routes; it does not touch the
\* configuration source or the resolver.
setup_handlers(base_url) ==
    /\ handlers = {}
    /\ handlers' = {[pattern |-> url_path_join(base_url, r.name), route |-> r.name,
                     handler |-> r.handler] : r \in Routes}
    /\ UNCHANGED <<config_file, cache, scanned, resolved, request, remote, response,
                   log, host_in, args_in, ret>>

\* The request the server hands to the handler registered as h: its uri is
\* the matched path followed by the query string.
Request(h, host, q, upstream) ==
    [route |-> h.route, host |-> host, uri |-> h.pattern \o q.qs,
     arguments |-> q.arguments, upstream |-> upstream]

\* The state a handler's get() leaves behind when r is what it did.
Respond(req, r) ==
    /\ request' = req
    /\ cache' = r.cache
    /\ scanned' = r.scanned
    /\ resolved' = resolved \cup (CacheKeys(r.cache) \cap {req.host})
    /\ remote' = r.remote
    /\ response' = r.response
    /\ log' = log \cup r.written
    /\ UNCHANGED <<config_file, handlers, host_in, args_in, ret>>

\* A handler's get() runs to its end: the handlers are synchronous.
Served(req, parses, key, op, branches) ==
    Respond(req, get(config_file, cache, req, parses, key, op, branches))

DescribeCapabilitiesHandler_get(host, q, upstream) ==
    \E h \in handlers :
        /\ h.handler = "DescribeCapabilitiesHandler"
        /\ Served(Request(h, host, q, upstream), FALSE, "", "getCapabilities", FALSE)

SubmitJobHandler_get(host, q, upstream) ==
    \E h \in handlers :
        /\ h.handler = "SubmitJobHandler"
        /\ Served(Request(h, host, q, upstream), FALSE, "", "submitJob", TRUE)

RevokeJobHandler_get(host, q, upstream) ==
    \E h \in handlers :
        /\ h.handler = "RevokeJobHandler"
        /\ Served(Request(h, host, q, upstream), TRUE, "job_id", "deleteJob", TRUE)

JobResultHandler_get(host, q, upstream) ==
    \E h \in handlers :
        /\ h.handler = "JobResultHandler"
        /\ Served(Request(h, host, q, upstream), TRUE, "job_id", "getJobResult", TRUE)

JobMetricsHandler_get(host, q, upstream) ==
    \E h \in handlers :
        /\ h.handler = "JobMetricsHandler"
        /\ Served(Request(h, host, q, upstream), TRUE, "job_id", "getJobMetrics", TRUE)

JobStatusHandler_get(host, q, upstream) ==
    \E h \in handlers :
        /\ h.handler = "JobStatusHandler"
        /\ Served(Request(h, host, q, upstream), TRUE, "job_id", "getJobStatus", TRUE)

ListJobsHandler_get(host, q, upstream) ==
    \E h \in handlers :
        /\ h.handler = "ListJobsHandler"
        /\ Served(Request(h, host, q, upstream), TRUE, "username", "listJobs", TRUE)

\* A direct call get_maap_config(host_in).
call_get_maap_config ==
    LET r == get_maap_config(config_file, cache, host_in)
    IN  /\ ret' = r.out
        /\ cache' = r.cache
        /\ scanned' = r.scanned
        /\ resolved' = resolved \cup (CacheKeys(r.cache) \cap {host_in})
        /\ UNCHANGED <<config_file, handlers, request, remote, response, log,
                       host_in, args_in>>

\* A direct call parse_params(args_in).
call_parse_params ==
    /\ ret' = parse_params(args_in)
    /\ UNCHANGED <<config_file, cache, scanned, resolved, handlers, request, remote,
                   response, log, host_in, args_in>>

----------------------------------------------------------------------------
(* Specifications                                                          *)

Start ==
    /\ cache = <<>>
    /\ scanned = FALSE
    /\ resolved = {}
    /\ handlers = {}
    /\ request = NoRequest
    /\ remote = NoCall
    /\ response = NoResponse
    /\ log = {}
    /\ ret = NotCalled

\* The extension serving requests on every route.
Init ==
    /\ Start
    /\ config_file \in {Missing, Malformed, File(Environments)}
    /\ host_in = <<>>
    /\ args_in = <<>>

Next ==
    \/ \E b \in BaseUrls : setup_handlers(b)
    \/ \E host \in Hosts, q \in Queries, upstream \in Upstreams :
        \/ DescribeCapabilitiesHandler_get(host, q, upstream)
        \/ SubmitJobHandler_get(host, q, upstream)
        \/ RevokeJobHandler_get(host, q, upstream)
        \/ JobResultHandler_get(host, q, upstream)
        \/ JobMetricsHandler_get(host, q, upstream)
        \/ JobStatusHandler_get(host, q, upstream)
        \/ ListJobsHandler_get(host, q, upstream)

Spec == Init /\ [][Next]_vars

\* Job-status requests from one recurring host and from a stream of hosts
\* seen once each, enough of them to fill the resolver cache.
InitLRU ==
    /\ Start
    /\ config_file = File(Environments)
    /\ host_in = <<>>
    /\ args_in = <<>>

NextLRU ==
    \/ setup_handlers(<<"/">>)
    \/ \E host \in {Probe, FillHost(Filled + 1)},
          upstream \in {ConnectionRefused, Response(200, JobBody)} :
        /\ host = Probe \/ Filled < MaxFill
        /\ JobStatusHandler_get(host, JobQuery, upstream)

SpecLRU == InitLRU /\ [][NextLRU]_vars

\* get_maap_config applied to one host under one configuration list.
InitResolve ==
    /\ Start
    /\ config_file \in {File(c) : c \in Configs}
    /\ host_in \in HostStrings
    /\ args_in = <<>>

NextResolve == call_get_maap_config

SpecResolve == InitResolve /\ [][NextResolve]_vars

\* parse_params applied to one raw argument mapping.
InitParse ==
    /\ Start
    /\ config_file = File(Environments)
    /\ host_in = <<>>
    /\ args_in \in RawArgs

NextParse == call_parse_params

SpecParse == InitParse /\ [][NextParse]_vars

----------------------------------------------------------------------------
(* Properties                                                              *)

Handled == request.route # ""
Returned == remote.called /\ ~request.upstream.raises
JobRoutes == {"submitJob", "revokeJob", "jobResult", "jobMetrics", "jobStatus", "listJobs"}
RequiredKey(route) ==
    IF route \in {"revokeJob", "jobResult", "jobMetrics", "jobStatus"} THEN "job_id"
    ELSE IF route = "listJobs" THEN "username" ELSE ""
Path(route) == (CHOOSE h \in handlers : h.route = route).pattern

\* C1: on every route, when the remote call raises, the handler logs the
\* failure and finishes the request with the envelope
\* {status_code: 500, response: "Failed to query endpoint: " + host + uri}.
CexC1 ==
    (Handled /\ remote.called /\ request.upstream.raises) =>
        LET msg == <<"Failed to query endpoint: ">> \o request.host \o request.uri
        IN  /\ response = Finish(500, msg)
            /\ msg \in log

\* C2: a request that lacks its required parameter (the configuration being
\* loadable) makes no remote call and is answered with an envelope whose
\* status_code is 500 and whose response text contains the request host and
\* path.
CexC2 ==
    (/\ Handled
     /\ config_file.valid
     /\ RequiredKey(request.route) # ""
     /\ RequiredKey(request.route) \notin Keys(request.arguments)) =>
        /\ ~remote.called
        /\ response.kind = "finish"
        /\ response.status_code = 500
        /\ In(request.host \o Path(request.route), response.response)

\* C3: no per-request error escapes a route handler: every handled request
\* ends with an envelope written by the handler, never with an exception
\* raised out of it.
CexC3 == Handled => response.kind = "finish"

CexC8 ==
    [][(/\ request.route = "submitJob" /\ request'.route = "submitJob"
        /\ remote.called /\ remote'.called
        /\ request.arguments # request'.arguments)
       => remote'.args # remote.args]_vars


Called == ret.exc # "not called"

\* The first entry of the list, in list order, for which hit holds, or None.
FirstOf(data, hit(_)) ==
    IF \E i \in DOMAIN data : hit(data[i])
    THEN Some(data[CHOOSE i \in DOMAIN data :
                       hit(data[i]) /\ \A j \in 1..(i - 1) : ~hit(data[j])])
    ELSE None

\* C4 as claimed: resolve(host) returns the first entry whose host pattern
\* is a substring of the request host, and the default entry when no entry
\* has such a pattern; for every host, the empty one, fragments of a server
\* identifier and hosts longer than one included.
CexC4 ==
    Called =>
        LET data == config_file.data
            PatternInHost(x) == In(x.ade_server, host_in)
            IsDefault(x) == x.default_host
        IN  /\ ~ret.raised
            /\ ret.value = IF FirstOf(data, PatternInHost) # None
                           THEN FirstOf(data, PatternInHost)
                           ELSE FirstOf(data, IsDefault)

\* C4 as amended: resolve(host) returns the first entry, in list order,
\* whose server identifier contains the request host as a substring
\* (case-sensitive), and the default entry when no identifier contains it.
\* So the empty host resolves to the first entry of the list, a fragment of
\* an identifier to that identifier's entry, and a host longer than every
\* identifier to the default entry.
ThmC4 ==
    Called =>
        LET data == config_file.data
            HostInIdentifier(x) == In(host_in, x.ade_server)
            IsDefault(x) == x.default_host
        IN  /\ ~ret.raised
            /\ ret.value = IF FirstOf(data, HostInIdentifier) # None
                           THEN FirstOf(data, HostInIdentifier)
                           ELSE FirstOf(data, IsDefault)
            /\ host_in = <<>> => ret.value = Some(data[1])
            /\ (\A i \in DOMAIN data : Len(host_in) > Len(data[i].ade_server))
                   => ret.value[1].default_host

\* The empty host resolved to the first entry although it is not the default.
WitC4 ==
    /\ Called
    /\ host_in = <<>>
    /\ Len(config_file.data) = 2
    /\ ~config_file.data[1].default_host
    /\ ret.value = Some(config_file.data[1])

AllConvertible(args) ==
    \A i \in DOMAIN args :
        /\ args[i].value # <<>>
        /\ ~utf8_decode(args[i].value[1]).raised

\* C9 as claimed: for every raw argument mapping, lists that are empty
\* included, extract returns a mapping with exactly the input's keys, each
\* mapped to the UTF-8 decoding of the first value of its list.
CexC9 ==
    Called =>
        /\ ~ret.raised
        /\ DOMAIN ret.value = Keys(args_in)
        /\ \A i \in DOMAIN args_in :
               ret.value[args_in[i].key] = utf8_decode(args_in[i].value[1]).value

\* C9 as amended: for every raw argument mapping in which every list is
\* non-empty and begins with valid UTF-8, extract returns a mapping with
\* exactly the input's keys, each mapped to the decoding of the first value
\* of its list, later values dropped; when some list is empty or begins
\* with bytes that are not valid UTF-8, extract raises (IndexError for the
\* empty list, UnicodeDecodeError for the bytes) and returns no mapping.
ThmC9 ==
    Called =>
        IF AllConvertible(args_in)
        THEN /\ ~ret.raised
             /\ DOMAIN ret.value = Keys(args_in)
             /\ \A i \in DOMAIN args_in :
                    ret.value[args_in[i].key] = utf8_decode(args_in[i].value[1]).value
             /\ \A i \in DOMAIN args_in :
                    /\ args_in[i].value[1] = <<226, 130, 172>>
                           => ret.value[args_in[i].key] = <<8364>>
                    /\ args_in[i].value[1] = <<195, 169>>
                           => ret.value[args_in[i].key] = <<233>>
        ELSE /\ ret.raised
             /\ LET i == CHOOSE i \in DOMAIN args_in :
                             /\ ~AllConvertible(<<args_in[i]>>)
                             /\ \A j \in 1..(i - 1) : AllConvertible(<<args_in[j]>>)
                IN  ret.exc = IF args_in[i].value = <<>> THEN "IndexError"
                              ELSE "UnicodeDecodeError"

\* Two keys, one with two values: both keys kept, each with its first value.
WitC9 ==
    /\ Called
    /\ args_in = <<Item("job_id", <<<<226, 130, 172>>, <<106>>>>),
                   Item("username", <<<<106>>>>)>>
    /\ ~ret.raised
    /\ ret.value["job_id"] = <<8364>>
    /\ ret.value["username"] = <<106>>

\* A handler ran in this step (setup_handlers runs once, before any request).
HandlerStep == handlers # {} /\ vars' # vars

CacheBounded == Len(cache) <= maxsize

\* When a miss finds the cache full, the least recently used entry goes.
EvictsLRU ==
    (HandlerStep /\ scanned' /\ Len(cache) = maxsize) =>
        /\ Len(cache') = maxsize
        /\ SubSeq(cache', 1, maxsize - 1) = Tail(cache)
        /\ cache'[maxsize].key = request'.host

\* C6 as claimed: once resolve(H) has returned, every later resolve(H),
\* after any resolutions of other hosts, returns the cached result without
\* reading the configuration; the cache never holds more than 128 hosts and
\* evicts the least recently used host when full.
CexC6 ==
    /\ [][(HandlerStep /\ request'.host \in resolved) =>
              (~scanned' /\ remote'.api = scan_config(config_file, request'.host).value[1].api_server)]_vars
    /\ []CacheBounded
    /\ [][EvictsLRU]_vars

\* C6 as amended: once resolve(H) has returned, a later resolve(H) returns
\* the cached result without reading the configuration as long as H is
\* still in the cache, and makes H the most recently used host; once H has
\* been evicted, resolve(H) reads and scans the configuration again.  The
\* cache never holds more than 128 hosts and evicts the least recently used
\* host when full.
ThmC6 ==
    /\ [][(HandlerStep /\ request'.host \in CacheKeys(cache)) =>
              /\ ~scanned'
              /\ \E i \in DOMAIN cache :
                     /\ cache[i].key = request'.host
                     /\ cache'[Len(cache')] = cache[i]
                     /\ remote'.called => remote'.api = cache[i].result[1].api_server
              /\ CacheKeys(cache') = CacheKeys(cache)]_vars
    /\ [][(HandlerStep /\ request'.host \notin CacheKeys(cache)) =>
              /\ scanned'
              /\ cache'[Len(cache')].key = request'.host]_vars
    /\ []CacheBounded
    /\ [][EvictsLRU]_vars

\* The recurring host was resolved, evicted by 128 other hosts, and its
\* next resolution scanned the configuration again.
WitC6 ==
    /\ request.host = Probe
    /\ Filled >= maxsize
    /\ scanned
    /\ Len(cache) = maxsize
    /\ cache[maxsize].key = Probe

\* The outcome of the request served alone, by a process whose resolver
\* cache is empty.
Alone(req) ==
    LET key == RequiredKey(req.route)
        op == CASE req.route = "describeCapabilities" -> "getCapabilities"
                [] req.route = "submitJob" -> "submitJob"
                [] req.route = "revokeJob" -> "deleteJob"
                [] req.route = "jobResult" -> "getJobResult"
                [] req.route = "jobMetrics" -> "getJobMetrics"
                [] req.route = "jobStatus" -> "getJobStatus"
                [] req.route = "listJobs" -> "listJobs"
    IN  get(config_file, <<>>, req, key # "", key, op,
            req.route # "describeCapabilities")

\* C10: in every order of requests, every resolution of a host yields the
\* same environment, whichever request filled the cache and whatever was
\* evicted in between; and how a request ends (envelope and remote call)
\* depends only on its own host, uri, parameters and upstream outcome: it
\* ends as it would when served alone.
ThmC10 ==
    /\ \A i \in DOMAIN cache :
           cache[i].result = scan_config(config_file, cache[i].key).value
    /\ Handled =>
           /\ response = Alone(request).response
           /\ remote = Alone(request).remote

\* The recurring host is answered from a full cache that other requests
\* filled after evicting it once.
WitC10 ==
    /\ request.host = Probe
    /\ Filled > maxsize
    /\ ~scanned
    /\ Len(cache) = maxsize
    /\ remote.called
    /\ remote.api = <<"api.dit">>
    /\ response.kind = "finish"

====
